---- MODULE Spec2Model ----
(***************************************************************************)
(* Model of app/utils/simplex.ts: the two solveSimplex variants (the       *)
(* 5-argument all-<= solver and the 7-argument solver with relations and   *)
(* the methods standard, bigM and twoPhase).                               *)
(*                                                                         *)
(* Numbers.  The program computes on IEEE doubles.  The model computes on  *)
(* exact rationals <<numerator, denominator>> in lowest terms with a       *)
(* positive denominator; on the inputs explored here the doubles differ    *)
(* from these values by rounding noise far below the program's tolerances  *)
(* (1e-9, 1e-5).  Arrays keep the program's 0-based indices: they are      *)
(* functions on 0..k.  The list of steps is a sequence, so the program's   *)
(* steps[k] is steps[k+1] here.                                            *)
(***************************************************************************)
EXTENDS Integers, Sequences, FiniteSets, TLC

VARIABLES
    variant,          \* "simple": solveSimplex/5, "extended": solveSimplex/7
    type,             \* 'max' | 'min'
    numVars,
    numConstraints,
    objectiveCoeffs,  \* the caller's array, 0..numVars-1
    constraints,      \* the caller's array of rows [...coeffs, rhs]
    signs,            \* "<=", ">=", "=" per constraint (extended only)
    method,           \* "standard" | "bigM" | "twoPhase" ("none" for simple)
    tableau,
    basicVars,
    steps,
    it,               \* the running loop's iteration counter (iter / it)
    pivotCol,         \* the loop's locals of its latest iteration
    pivotRow,
    iterations,       \* value returned by the first runSimplexLoop call
    phase2Steps,      \* value returned by the phase-2 runSimplexLoop call
    phase1Val,        \* row 0's right-hand side read after the first loop
    phase,            \* 1: first runSimplexLoop call, 2: the phase-2 call
    status,
    solution,
    optimalValue,
    pc,               \* position in the call
    callNo,           \* 1: first call, 2: the same arguments solved again
    firstResult       \* result of the first call, kept by the caller

vars == <<variant, type, numVars, numConstraints, objectiveCoeffs, constraints,
          signs, method, tableau, basicVars, steps, it, pivotCol, pivotRow,
          iterations, phase2Steps, phase1Val, phase, status, solution, optimalValue,
          pc, callNo, firstResult>>

args == <<variant, type, numVars, numConstraints, objectiveCoeffs, constraints,
          signs, method>>

-----------------------------------------------------------------------------
(* Bounds of the explored inputs.                                          *)

MaxVal == 1
MaxVars == 2
MaxConstraints == 2
MaxCells == 2

-----------------------------------------------------------------------------
(* Program constants.                                                      *)

M == 100000
maxIterationsSimple == 100
maxIterations == 50

-----------------------------------------------------------------------------
(* Number arithmetic: exact rationals.                                     *)

AbsInt(i) == IF i < 0 THEN -i ELSE i

RECURSIVE Gcd(_, _)
Gcd(a, b) == IF b = 0 THEN a ELSE Gcd(b, a % b)

Frac(n, d) == LET g == Gcd(AbsInt(n), d) IN <<n \div g, d \div g>>

Zero == <<0, 1>>
One == <<1, 1>>
Int2Num(i) == <<i, 1>>

Neg(p) == <<-p[1], p[2]>>

Plus(p, q) ==
    IF p[2] = 1 /\ q[2] = 1 THEN <<p[1] + q[1], 1>>
    ELSE LET g == Gcd(p[2], q[2])
         IN Frac(p[1] * (q[2] \div g) + q[1] * (p[2] \div g), (p[2] \div g) * q[2])

Minus(p, q) == Plus(p, Neg(q))

Times(p, q) ==
    IF p[1] = 0 \/ q[1] = 0 THEN Zero
    ELSE IF p[2] = 1 /\ q[2] = 1 THEN <<p[1] * q[1], 1>>
    ELSE LET g1 == Gcd(AbsInt(p[1]), q[2])
             g2 == Gcd(AbsInt(q[1]), p[2])
         IN <<(p[1] \div g1) * (q[1] \div g2), (p[2] \div g2) * (q[2] \div g1)>>

Recip(q) == IF q[1] > 0 THEN <<q[2], q[1]>> ELSE <<-q[2], -q[1]>>

Over(p, q) == Times(p, Recip(q))

(* a/b < c/d for b, d > 0, by comparing integer parts and then the         *)
(* remainders (no product is formed, so large operands cannot overflow).   *)
RECURSIVE FracLess(_, _, _, _)
FracLess(a, b, c, d) ==
    LET qa == a \div b
        qc == c \div d
        ra == a % b
        rc == c % d
    IN IF qa # qc THEN qa < qc
       ELSE IF rc = 0 THEN FALSE
       ELSE IF ra = 0 THEN TRUE
       ELSE FracLess(d, rc, b, ra)

Less(p, q) ==
    IF p[2] = 1 /\ q[2] = 1 THEN p[1] < q[1]
    ELSE FracLess(p[1], p[2], q[1], q[2])

Greater(p, q) == Less(q, p)

AbsNum(p) == <<AbsInt(p[1]), p[2]>>

EPS == <<1, 1000000000>>
FEAS_TOL == <<1, 100000>>

-----------------------------------------------------------------------------
(* Pieces shared by the two variants (the code repeats them).              *)

(* c: the cost vector, negated for 'min'.                                  *)
Costs(ty, n, obj) == [j \in 0..(n - 1) |-> IF ty = "min" THEN Neg(obj[j]) ELSE obj[j]]

(* The scan with <= in place of <: a later equal entry replaces the choice. *)
RECURSIVE ScanColLastTie(_, _, _, _, _)
ScanColLastTie(row0, j, last, minVal, best) ==
    IF j > last THEN best
    ELSE IF ~Less(minVal, row0[j]) THEN ScanColLastTie(row0, j + 1, last, row0[j], j)
    ELSE ScanColLastTie(row0, j + 1, last, minVal, best)

(* The entering-column scan: for j = 0..last, take j when row0[j] < minVal *)
(* and lower minVal to it.                                                  *)
RECURSIVE ScanCol(_, _, _, _, _)
ScanCol(row0, j, last, minVal, best) ==
    IF j > last THEN best
    ELSE IF Less(row0[j], minVal) THEN ScanCol(row0, j + 1, last, row0[j], j)
    ELSE ScanCol(row0, j + 1, last, minVal, best)

(* The ratio test with <= in place of <: a later equal ratio replaces the  *)
(* choice.                                                                 *)
RECURSIVE ScanRowLastTie(_, _, _, _, _, _, _, _)
ScanRowLastTie(T, i, m, col, rhsCol, tol, minRatio, best) ==
    IF i > m THEN best
    ELSE IF Greater(T[i][col], tol)
         THEN LET ratio == Over(T[i][rhsCol], T[i][col])
              IN IF best = -1 \/ ~Less(minRatio, ratio)
                 THEN ScanRowLastTie(T, i + 1, m, col, rhsCol, tol, ratio, i)
                 ELSE ScanRowLastTie(T, i + 1, m, col, rhsCol, tol, minRatio, best)
         ELSE ScanRowLastTie(T, i + 1, m, col, rhsCol, tol, minRatio, best)

(* The ratio test: for i = 1..m, a row whose entry in column col is above  *)
(* tol is taken when its ratio is below minRatio (Infinity while best=-1). *)
RECURSIVE ScanRow(_, _, _, _, _, _, _, _)
ScanRow(T, i, m, col, rhsCol, tol, minRatio, best) ==
    IF i > m THEN best
    ELSE IF Greater(T[i][col], tol)
         THEN LET ratio == Over(T[i][rhsCol], T[i][col])
              IN IF best = -1 \/ Less(ratio, minRatio)
                 THEN ScanRow(T, i + 1, m, col, rhsCol, tol, ratio, i)
                 ELSE ScanRow(T, i + 1, m, col, rhsCol, tol, minRatio, best)
         ELSE ScanRow(T, i + 1, m, col, rhsCol, tol, minRatio, best)

(* The elimination starting at row 1: row 0 is left as it was.             *)
PivotSkipsRow0(T, pr, pcol) ==
    LET normRow == [j \in DOMAIN T[pr] |-> Over(T[pr][j], T[pr][pcol])]
    IN [i \in DOMAIN T |->
          IF i = pr THEN normRow
          ELSE IF i = 0 THEN T[0]
          ELSE [j \in DOMAIN T[i] |-> Minus(T[i][j], Times(T[i][pcol], normRow[j]))]]

(* Gauss-Jordan pivot at (pr, pcol): normalise the pivot row, then         *)
(* eliminate the pivot column from every other row, row 0 included.        *)
Pivot(T, pr, pcol) ==
    LET pivotElement == T[pr][pcol]
        normRow == [j \in DOMAIN T[pr] |-> Over(T[pr][j], pivotElement)]
    IN [i \in DOMAIN T |->
          IF i = pr THEN normRow
          ELSE LET factor == T[i][pcol]
               IN [j \in DOMAIN T[i] |-> Minus(T[i][j], Times(factor, normRow[j]))]]

StepRecord(T, pr, pcol, bv) ==
    [tableau |-> T, enteringVar |-> pcol, leavingVar |-> pr,
     pivotRow |-> pr, pivotCol |-> pcol, basicVars |-> bv]

(* solution[k] = v on an array: an index of the array is overwritten, any  *)
(* other key (the -1 placeholder) is added to it as a further property and *)
(* leaves the indexed entries untouched.                                   *)
AssignAt(sol, k, v) == [j \in (DOMAIN sol) \cup {k} |-> IF j = k THEN v ELSE sol[j]]

(* The extraction reading row i in place of row i+1.                       *)
RECURSIVE ExtractFromRowBefore(_, _, _, _, _, _)
ExtractFromRowBefore(sol, i, m, n, bv, rhs) ==
    IF i >= m THEN sol
    ELSE IF bv[i] < n
         THEN ExtractFromRowBefore(AssignAt(sol, bv[i], rhs[i]), i + 1, m, n, bv, rhs)
         ELSE ExtractFromRowBefore(sol, i + 1, m, n, bv, rhs)

(* Solution extraction: solution[basicVars[i]] = rhs of row i+1 for each   *)
(* basic index below n, later rows overwriting earlier ones.  The test has *)
(* no lower bound, so the -1 placeholder is written as well.               *)
RECURSIVE ExtractFrom(_, _, _, _, _, _)
ExtractFrom(sol, i, m, n, bv, rhs) ==
    IF i >= m THEN sol
    ELSE IF bv[i] < n
         THEN ExtractFrom(AssignAt(sol, bv[i], rhs[i + 1]), i + 1, m, n, bv, rhs)
         ELSE ExtractFrom(sol, i + 1, m, n, bv, rhs)

ExtractSolution(T, bv, n, m, rhsCol) ==
    ExtractFrom([j \in 0..(n - 1) |-> Zero], 0, m, n, bv, [i \in DOMAIN T |-> T[i][rhsCol]])

OptimalValueUnsigned(T, ty, rhsCol) == T[0][rhsCol]

OptimalValueOf(T, ty, rhsCol) == IF ty = "min" THEN Neg(T[0][rhsCol]) ELSE T[0][rhsCol]

-----------------------------------------------------------------------------
(* solveSimplex, 5 arguments.                                              *)

SimpleTotalCols(n, m) == n + m + 1

SimpleInitTableau(ty, n, m, obj, cons) ==
    LET c == Costs(ty, n, obj)
        totalCols == SimpleTotalCols(n, m)
    IN [i \in 0..m |-> [j \in 0..(totalCols - 1) |->
          IF i = 0 THEN (IF j < n THEN Neg(c[j]) ELSE Zero)
          ELSE IF j < n THEN cons[i - 1][j]
          ELSE IF j = totalCols - 1 THEN cons[i - 1][n]
          ELSE IF j = n + (i - 1) THEN One
          ELSE Zero]]

SimpleInitBasicVars(n, m) == [i \in 0..(m - 1) |-> n + i]

SimplePivotCol(T, totalCols) == ScanCol(T[0], 0, totalCols - 2, Zero, -1)

(* The first row with a positive entry, whatever its ratio.                 *)
SimplePivotRowFirstPositive(T, m, totalCols, col) ==
    LET eligible == {i \in 1..m : Greater(T[i][col], Zero)}
    IN IF eligible = {} THEN -1
       ELSE CHOOSE i \in eligible : \A k \in eligible : i <= k

SimplePivotRow(T, m, totalCols, col) ==
    ScanRow(T, 1, m, col, totalCols - 1, Zero, Zero, -1)

-----------------------------------------------------------------------------
(* solveSimplex, 7 arguments.                                              *)

IsSlackSurplus(sign) == sign = "<=" \/ sign = ">="
IsArtificial(sign) == sign # "<="

slackSurplusCount(sg, m) == Cardinality({i \in 0..(m - 1) : IsSlackSurplus(sg[i])})
artificialCount(sg, m) == Cardinality({i \in 0..(m - 1) : IsArtificial(sg[i])})

useArtificials(me) == me = "bigM" \/ me = "twoPhase"

ExtTotalCols(n, m, sg, me) ==
    n + slackSurplusCount(sg, m) + (IF useArtificials(me) THEN artificialCount(sg, m) ELSE 0) + 1

(* currentSlackSurplusIndex / currentArtificialIndex when row i is filled. *)
SlackIndexAt(n, sg, i) == n + Cardinality({k \in 0..(i - 1) : IsSlackSurplus(sg[k])})
ArtificialIndexAt(n, m, sg, i) ==
    n + slackSurplusCount(sg, m) + Cardinality({k \in 0..(i - 1) : IsArtificial(sg[k])})

ExtInitBasicVars(n, m, sg, me) ==
    [i \in 0..(m - 1) |->
        IF me = "standard" /\ sg[i] = ">=" THEN SlackIndexAt(n, sg, i)
        ELSE IF sg[i] = "<=" THEN SlackIndexAt(n, sg, i)
        ELSE IF useArtificials(me) THEN ArtificialIndexAt(n, m, sg, i)
        ELSE -1]

(* Constraint row i (tableau row i+1) as the fill loop leaves it.          *)
ExtConstraintRow(n, m, cons, sg, me, i) ==
    LET totalCols == ExtTotalCols(n, m, sg, me)
        flip == me = "standard" /\ sg[i] = ">="
        s == SlackIndexAt(n, sg, i)
        a == ArtificialIndexAt(n, m, sg, i)
    IN [j \in 0..(totalCols - 1) |->
          IF j < n THEN (IF flip THEN Neg(cons[i][j]) ELSE cons[i][j])
          ELSE IF j = totalCols - 1 THEN (IF flip THEN Neg(cons[i][n]) ELSE cons[i][n])
          ELSE IF flip THEN (IF j = s THEN One ELSE Zero)
          ELSE IF sg[i] = "<=" THEN (IF j = s THEN One ELSE Zero)
          ELSE IF sg[i] = ">=" /\ j = s THEN Neg(One)
          ELSE IF useArtificials(me) /\ j = a THEN One
          ELSE Zero]

(* Row 0 before the basic variables are eliminated from it.                *)
ExtObjectiveRow(ty, n, m, obj, sg, me) ==
    LET c == Costs(ty, n, obj)
        totalCols == ExtTotalCols(n, m, sg, me)
        firstArt == n + slackSurplusCount(sg, m)
    IN [j \in 0..(totalCols - 1) |->
          IF me = "twoPhase"
          THEN (IF j >= firstArt /\ j < totalCols - 1 THEN One ELSE Zero)
          ELSE IF j < n THEN Neg(c[j])
          ELSE IF me = "bigM" /\ j >= firstArt /\ j < totalCols - 1 THEN Int2Num(M)
          ELSE Zero]

(* for i = from..m-1: subtract coeff * row i+1 from row 0 when the         *)
(* coefficient of basicVars[i] in row 0 is beyond tol (tol 0: non-zero).   *)
RECURSIVE EliminateBasic(_, _, _, _, _, _)
EliminateBasic(row0, i, m, T, bv, tol) ==
    IF i >= m THEN row0
    ELSE LET coeff == row0[bv[i]]
         IN IF Greater(AbsNum(coeff), tol)
            THEN EliminateBasic(
                    [j \in DOMAIN row0 |-> Minus(row0[j], Times(coeff, T[i + 1][j]))],
                    i + 1, m, T, bv, tol)
            ELSE EliminateBasic(row0, i + 1, m, T, bv, tol)

ExtInitTableau(ty, n, m, obj, cons, sg, me) ==
    LET rows == [i \in 0..m |->
                    IF i = 0 THEN ExtObjectiveRow(ty, n, m, obj, sg, me)
                    ELSE ExtConstraintRow(n, m, cons, sg, me, i - 1)]
        bv == ExtInitBasicVars(n, m, sg, me)
    IN IF useArtificials(me)
       THEN [rows EXCEPT ![0] = EliminateBasic(rows[0], 0, m, rows, bv, Zero)]
       ELSE rows

ExtPivotCol(T, totalCols) == ScanCol(T[0], 0, totalCols - 2, Neg(EPS), -1)

ExtPivotRow(T, m, totalCols, col) ==
    ScanRow(T, 1, m, col, totalCols - 1, EPS, Zero, -1)

(* Phase-2 preparation: row 0 := -c in the decision columns, 0 elsewhere,  *)
(* then the basic variables are eliminated from it.                        *)
Phase2Tableau(T, ty, n, m, obj, bv) ==
    LET c == Costs(ty, n, obj)
        fresh == [j \in DOMAIN T[0] |-> IF j < n THEN Neg(c[j]) ELSE Zero]
    IN [T EXCEPT ![0] = EliminateBasic(fresh, 0, m, T, bv, EPS)]

Phase1InfeasibleNoAbs(T, totalCols) == Greater(T[0][totalCols - 1], FEAS_TOL)

Phase1Infeasible(T, totalCols) == Greater(AbsNum(T[0][totalCols - 1]), FEAS_TOL)

-----------------------------------------------------------------------------
(* The calls explored.                                                     *)

Vals == {Int2Num(v) : v \in (-MaxVal)..MaxVal}
Types == {"max", "min"}
Signs == {"<=", ">=", "="}
Methods == {"standard", "bigM", "twoPhase"}

Dims == {d \in (1..MaxVars) \X (1..MaxConstraints) : d[1] * d[2] <= MaxCells}

Call(v, ty, n, m, obj, cons, sg, me) ==
    [variant |-> v, type |-> ty, numVars |-> n, numConstraints |-> m,
     objectiveCoeffs |-> obj, constraints |-> cons, signs |-> sg, method |-> me]

AllLe(m) == [i \in 0..(m - 1) |-> "<="]

CallsOf(n, m) ==
    {Call("simple", ty, n, m, obj, cons, AllLe(m), "none") :
        ty \in Types, obj \in [0..(n - 1) -> Vals], cons \in [0..(m - 1) -> [0..n -> Vals]]}
    \cup
    {Call("extended", ty, n, m, obj, cons, sg, me) :
        ty \in Types, obj \in [0..(n - 1) -> Vals], cons \in [0..(m - 1) -> [0..n -> Vals]],
        sg \in [0..(m - 1) -> Signs], me \in Methods}

(* A sequence <<v0, v1, ...>> as the 0-based array it stands for.          *)
Arr(seq) == [j \in 0..(Len(seq) - 1) |-> seq[j + 1]]

(* A degenerate problem on which the most-negative rule with lowest-index  *)
(* ties cycles with period 6, so the loop runs into its iteration cap:     *)
(* max 10x1 - 57x2 - 9x3 - 24x4, 1/2x1 - 11/2x2 - 5/2x3 + 9x4 <= 0,        *)
(* 1/2x1 - 3/2x2 - 1/2x3 + x4 <= 0, x1 <= 1.                               *)
CyclingObjective == Arr(<<Int2Num(10), Int2Num(-57), Int2Num(-9), Int2Num(-24)>>)
CyclingConstraints ==
    Arr(<<Arr(<< <<1, 2>>, <<-11, 2>>, <<-5, 2>>, Int2Num(9), Zero>>),
          Arr(<< <<1, 2>>, <<-3, 2>>, <<-1, 2>>, One, Zero>>),
          Arr(<<One, Zero, Zero, Zero, One>>)>>)

CyclingCalls ==
    {Call("simple", "max", 4, 3, CyclingObjective, CyclingConstraints, AllLe(3), "none")}
    \cup
    {Call("extended", "max", 4, 3, CyclingObjective, CyclingConstraints, AllLe(3), me) :
        me \in Methods}

(* Coefficients at the tolerance itself: 1e-9 x1 = b and 1e-9 x1 = b.      *)
(* Their sum in row 0 is beyond the entering tolerance, each entry is not  *)
(* above the ratio-test tolerance.                                         *)
TinyConstraints(b) == Arr(<<Arr(<<EPS, b>>), Arr(<<EPS, b>>)>>)

TinyCalls ==
    {Call("extended", ty, 1, 2, Arr(<<o>>), TinyConstraints(b), Arr(<<"=", "=">>), "twoPhase") :
        ty \in Types, o \in Vals, b \in {Zero, One}}

(* The documented example: max 3x1 + 5x2, x1 <= 4, 2x2 <= 12,              *)
(* 3x1 + 2x2 <= 18.                                                        *)
ExampleObjective == Arr(<<Int2Num(3), Int2Num(5)>>)
ExampleConstraints ==
    Arr(<<Arr(<<One, Zero, Int2Num(4)>>),
          Arr(<<Zero, Int2Num(2), Int2Num(12)>>),
          Arr(<<Int2Num(3), Int2Num(2), Int2Num(18)>>)>>)

ExampleCalls ==
    {Call("simple", "max", 2, 3, ExampleObjective, ExampleConstraints, AllLe(3), "none")}
    \cup
    {Call("extended", "max", 2, 3, ExampleObjective, ExampleConstraints, AllLe(3), me) :
        me \in Methods}

(* A coefficient at the ratio-test tolerance in a row with right-hand side *)
(* 0: max x1, 1e-9 x1 <= 0, x1 <= 1.                                       *)
ThresholdConstraints == Arr(<<Arr(<<EPS, Zero>>), Arr(<<One, One>>)>>)

ThresholdCalls ==
    {Call("simple", "max", 1, 2, Arr(<<One>>), ThresholdConstraints, AllLe(2), "none")}
    \cup
    {Call("extended", "max", 1, 2, Arr(<<One>>), ThresholdConstraints, AllLe(2), me) :
        me \in Methods}

(* The same coefficient in a problem that pivots again afterwards:         *)
(* max 2x1 + x2, 1e-9 x1 + x2 <= 0, x1 <= 1.                               *)
SkippedRowObjective == Arr(<<Int2Num(2), One>>)
SkippedRowConstraints == Arr(<<Arr(<<EPS, One, Zero>>), Arr(<<One, Zero, One>>)>>)

SkippedRowCalls ==
    {Call("simple", "max", 2, 2, SkippedRowObjective, SkippedRowConstraints, AllLe(2), "none")}
    \cup
    {Call("extended", "max", 2, 2, SkippedRowObjective, SkippedRowConstraints, AllLe(2), me) :
        me \in Methods}

Calls ==
    UNION {CallsOf(d[1], d[2]) : d \in Dims}
    \cup CyclingCalls \cup TinyCalls \cup ExampleCalls \cup ThresholdCalls
    \cup SkippedRowCalls

-----------------------------------------------------------------------------
(* The state machine of one call.                                          *)

NoResult == [status |-> "none"]

Start(calls) ==
    \E call \in calls :
        /\ variant = call.variant
        /\ type = call.type
        /\ numVars = call.numVars
        /\ numConstraints = call.numConstraints
        /\ objectiveCoeffs = call.objectiveCoeffs
        /\ constraints = call.constraints
        /\ signs = call.signs
        /\ method = call.method
        /\ tableau = <<>>
        /\ basicVars = <<>>
        /\ steps = <<>>
        /\ it = 0
        /\ pivotCol = -1
        /\ pivotRow = -1
        /\ iterations = 0
        /\ phase2Steps = 0
        /\ phase1Val = Zero
        /\ phase = 1
        /\ status = "none"
        /\ solution = <<>>
        /\ optimalValue = Zero
        /\ pc = "start"
        /\ callNo = 1
        /\ firstResult = NoResult

Init == Start(Calls)

totalCols ==
    IF variant = "simple" THEN SimpleTotalCols(numVars, numConstraints)
    ELSE ExtTotalCols(numVars, numConstraints, signs, method)

LoopContinuesInclusive(i, cap) == i <= cap

(* while (iter < maxIterations) / while (it < maxIterations).              *)
LoopContinues(i, cap) == i < cap

StaleSteps == steps

(* const steps = [] of a call: a new, empty list.                          *)
NewSteps == <<>>

(* The pushed record would hold the live tableau and basis arrays, which   *)
(* every record pushed so far then shares.                                 *)
PushStepShared(st, rec) ==
    Append([k \in 1..Len(st) |->
               [st[k] EXCEPT !.tableau = rec.tableau, !.basicVars = rec.basicVars]],
           rec)

(* steps.push({...}): the record holds its own copies of the tableau rows  *)
(* and of basicVars, and goes to the end of the list.                      *)
PushStep(st, rec) == Append(st, rec)

(* ---- 5-argument variant ---- *)

SimpleBuild ==
    /\ pc = "start" /\ variant = "simple"
    /\ tableau' = SimpleInitTableau(type, numVars, numConstraints, objectiveCoeffs, constraints)
    /\ basicVars' = SimpleInitBasicVars(numVars, numConstraints)
    /\ steps' = NewSteps
    /\ it' = 0
    /\ pc' = "loop"
    /\ UNCHANGED <<args, pivotCol, pivotRow, iterations, phase2Steps, phase1Val, phase, status,
                   solution, optimalValue, callNo, firstResult>>

(* The record is pushed before basicVars is updated.                       *)
SimpleRecordedBasis(bv, pr, pcol) == bv

SimplePivot ==
    /\ pc = "loop" /\ variant = "simple"
    /\ LoopContinues(it, maxIterationsSimple)
    /\ \E pcol \in {SimplePivotCol(tableau, totalCols)} :
       /\ pcol # -1
       /\ \E prow \in {SimplePivotRow(tableau, numConstraints, totalCols, pcol)} :
          /\ prow # -1
          /\ steps' = PushStep(steps, StepRecord(tableau, prow, pcol,
                                                 SimpleRecordedBasis(basicVars, prow, pcol)))
          /\ basicVars' = [basicVars EXCEPT ![prow - 1] = pcol]
          /\ tableau' = Pivot(tableau, prow, pcol)
          /\ pivotCol' = pcol
          /\ pivotRow' = prow
    /\ it' = it + 1
    /\ UNCHANGED <<args, iterations, phase2Steps, phase1Val, phase, status, solution, optimalValue,
                   pc, callNo, firstResult>>

SimpleUnbounded ==
    /\ pc = "loop" /\ variant = "simple"
    /\ LoopContinues(it, maxIterationsSimple)
    /\ \E pcol \in {SimplePivotCol(tableau, totalCols)} :
       /\ pcol # -1
       /\ \E prow \in {SimplePivotRow(tableau, numConstraints, totalCols, pcol)} :
          /\ prow = -1
          /\ pivotCol' = pcol
          /\ pivotRow' = prow
    /\ status' = "Unbounded"
    /\ solution' = <<>>
    /\ optimalValue' = Zero
    /\ pc' = "done"
    /\ UNCHANGED <<args, tableau, basicVars, steps, it, iterations, phase2Steps, phase1Val, phase,
                   callNo, firstResult>>

SimpleExtract ==
    /\ status' = "Optimal"
    /\ solution' = ExtractSolution(tableau, basicVars, numVars, numConstraints, totalCols - 1)
    /\ optimalValue' = OptimalValueOf(tableau, type, totalCols - 1)
    /\ pc' = "done"
    /\ UNCHANGED <<args, tableau, basicVars, steps, it, iterations, phase2Steps, phase1Val, phase,
                   callNo, firstResult>>

(* break: no negative entry in row 0.                                      *)
SimpleOptimal ==
    /\ pc = "loop" /\ variant = "simple"
    /\ LoopContinues(it, maxIterationsSimple)
    /\ SimplePivotCol(tableau, totalCols) = -1
    /\ pivotCol' = -1
    /\ pivotRow' = -1
    /\ SimpleExtract

(* while (iter < maxIterations) fails: the loop ends without a test.       *)
SimpleCap ==
    /\ pc = "loop" /\ variant = "simple"
    /\ ~LoopContinues(it, maxIterationsSimple)
    /\ UNCHANGED <<pivotCol, pivotRow>>
    /\ SimpleExtract

(* ---- 7-argument variant ---- *)

ExtBuild ==
    /\ pc = "start" /\ variant = "extended"
    /\ tableau' = ExtInitTableau(type, numVars, numConstraints, objectiveCoeffs,
                                 constraints, signs, method)
    /\ basicVars' = ExtInitBasicVars(numVars, numConstraints, signs, method)
    /\ steps' = NewSteps
    /\ it' = 0
    /\ phase' = 1
    /\ pc' = "loop"
    /\ UNCHANGED <<args, pivotCol, pivotRow, iterations, phase2Steps, phase1Val, status,
                   solution, optimalValue, callNo, firstResult>>

(* basicVars[pivotRow - 1] = pivotCol runs before steps.push copies it.    *)
ExtRecordedBasis(bv, pr, pcol) == [bv EXCEPT ![pr - 1] = pcol]

ExtPivot ==
    /\ pc = "loop" /\ variant = "extended"
    /\ LoopContinues(it, maxIterations)
    /\ \E pcol \in {ExtPivotCol(tableau, totalCols)} :
       /\ pcol # -1
       /\ \E prow \in {ExtPivotRow(tableau, numConstraints, totalCols, pcol)} :
          /\ prow # -1
          /\ basicVars' = [basicVars EXCEPT ![prow - 1] = pcol]
          /\ steps' = PushStep(steps, StepRecord(tableau, prow, pcol,
                                                 ExtRecordedBasis(basicVars, prow, pcol)))
          /\ tableau' = Pivot(tableau, prow, pcol)
          /\ pivotCol' = pcol
          /\ pivotRow' = prow
    /\ it' = it + 1
    /\ UNCHANGED <<args, iterations, phase2Steps, phase1Val, phase, status, solution, optimalValue,
                   pc, callNo, firstResult>>

(* runSimplexLoop returns r to its caller: iterations or phase2Steps.      *)
LoopReturns(r) ==
    /\ iterations' = IF phase = 1 THEN r ELSE iterations
    /\ phase2Steps' = IF phase = 2 THEN r ELSE phase2Steps
    /\ pc' = "coord"
    /\ UNCHANGED <<args, tableau, basicVars, steps, it, phase1Val, phase, status, solution,
                   optimalValue, callNo, firstResult>>

ExtLoopOptimal ==
    /\ pc = "loop" /\ variant = "extended"
    /\ LoopContinues(it, maxIterations)
    /\ ExtPivotCol(tableau, totalCols) = -1
    /\ pivotCol' = -1
    /\ pivotRow' = -1
    /\ LoopReturns(it)

ExtLoopCap ==
    /\ pc = "loop" /\ variant = "extended"
    /\ ~LoopContinues(it, maxIterations)
    /\ UNCHANGED <<pivotCol, pivotRow>>
    /\ LoopReturns(it)

ExtLoopUnbounded ==
    /\ pc = "loop" /\ variant = "extended"
    /\ LoopContinues(it, maxIterations)
    /\ \E pcol \in {ExtPivotCol(tableau, totalCols)} :
       /\ pcol # -1
       /\ \E prow \in {ExtPivotRow(tableau, numConstraints, totalCols, pcol)} :
          /\ prow = -1
          /\ pivotCol' = pcol
          /\ pivotRow' = prow
    /\ LoopReturns(-1)

Return(st, sol, val) ==
    /\ status' = st
    /\ solution' = sol
    /\ optimalValue' = val
    /\ pc' = "done"

ReturnInfeasible ==
    /\ pc = "coord" /\ phase = 1 /\ method = "twoPhase"
    /\ Phase1Infeasible(tableau, totalCols)
    /\ Return("Infeasible", <<>>, Zero)
    /\ phase1Val' = tableau[0][totalCols - 1]
    /\ UNCHANGED <<args, tableau, basicVars, steps, it, pivotCol, pivotRow, iterations,
                   phase2Steps, phase, callNo, firstResult>>

PreparePhase2 ==
    /\ pc = "coord" /\ phase = 1 /\ method = "twoPhase"
    /\ ~Phase1Infeasible(tableau, totalCols)
    /\ tableau' = Phase2Tableau(tableau, type, numVars, numConstraints, objectiveCoeffs,
                                basicVars)
    /\ phase' = 2
    /\ it' = 0
    /\ pc' = "loop"
    /\ phase1Val' = tableau[0][totalCols - 1]
    /\ UNCHANGED <<args, basicVars, steps, pivotCol, pivotRow, iterations, phase2Steps,
                   status, solution, optimalValue, callNo, firstResult>>

LoopOutcomeUntested == IF phase = 2 THEN phase2Steps ELSE 0

(* The value the coordinator tests for -1 before it extracts a solution.   *)
LoopOutcome == IF phase = 2 THEN phase2Steps ELSE iterations

ReturnUnbounded ==
    /\ pc = "coord"
    /\ IF phase = 1 THEN method # "twoPhase" ELSE TRUE
    /\ LoopOutcome = -1
    /\ Return("Unbounded", <<>>, Zero)
    /\ UNCHANGED <<args, tableau, basicVars, steps, it, pivotCol, pivotRow, iterations,
                   phase2Steps, phase1Val, phase, callNo, firstResult>>

ExtExtract ==
    /\ pc = "coord"
    /\ IF phase = 1 THEN method # "twoPhase" ELSE TRUE
    /\ LoopOutcome # -1
    /\ Return("Optimal",
              ExtractSolution(tableau, basicVars, numVars, numConstraints, totalCols - 1),
              OptimalValueOf(tableau, type, totalCols - 1))
    /\ UNCHANGED <<args, tableau, basicVars, steps, it, pivotCol, pivotRow, iterations,
                   phase2Steps, phase1Val, phase, callNo, firstResult>>

Next ==
    \/ SimpleBuild
    \/ SimplePivot
    \/ SimpleUnbounded
    \/ SimpleOptimal
    \/ SimpleCap
    \/ ExtBuild
    \/ ExtPivot
    \/ ExtLoopOptimal
    \/ ExtLoopCap
    \/ ExtLoopUnbounded
    \/ ReturnInfeasible
    \/ PreparePhase2
    \/ ReturnUnbounded
    \/ ExtExtract

Spec == Init /\ [][Next]_vars

(* A call runs to its return: the loop is synchronous, nothing suspends    *)
(* it, so a step that can be taken is eventually taken.  Next is enabled   *)
(* exactly in the states that have not returned, and weak fairness of Next *)
(* is spelled out over pc.                                                 *)
Done == pc = "done"
Fairness == []<>Done \/ []<><<Next>>_vars
FairSpec == Init /\ [][Next]_vars /\ Fairness

(* The caller solves the same problem again, passing the same arrays.      *)
Result ==
    [steps |-> steps, finalTableau |-> tableau, solution |-> solution,
     optimalValue |-> optimalValue, status |-> status, finalBasicVars |-> basicVars]

CallAgain ==
    /\ pc = "done" /\ callNo = 1
    /\ firstResult' = Result
    /\ callNo' = 2
    /\ pc' = "start"
    /\ UNCHANGED <<args, tableau, basicVars, steps, it, pivotCol, pivotRow, iterations,
                   phase2Steps, phase1Val, phase, status, solution, optimalValue>>

NextTwice == Next \/ CallAgain

SpecTwice == Init /\ [][NextTwice]_vars

(* The caller solves the dual statement of the same problem: the other     *)
(* direction with the negated objective, every other argument unchanged.   *)
OtherType(ty) == IF ty = "min" THEN "max" ELSE "min"

CallNegated ==
    /\ pc = "done" /\ callNo = 1
    /\ firstResult' = Result
    /\ callNo' = 2
    /\ pc' = "start"
    /\ type' = OtherType(type)
    /\ objectiveCoeffs' = [j \in DOMAIN objectiveCoeffs |-> Neg(objectiveCoeffs[j])]
    /\ UNCHANGED <<variant, numVars, numConstraints, constraints, signs, method,
                   tableau, basicVars, steps, it, pivotCol, pivotRow, iterations,
                   phase2Steps, phase1Val, phase, status, solution, optimalValue>>

NextNegated == Next \/ CallNegated

SpecNegated == Init /\ [][NextNegated]_vars

(* variableNames: `x${i + 1}`, `s${i + 1}`, `a${i + 1}` as <<letter, number>>. *)
NamesOf(letter, count) == [k \in 1..count |-> <<letter, k>>]

SimpleVariableNames(n, m) == Arr(NamesOf("x", n) \o NamesOf("s", m))

ExtVariableNames(n, m, sg, me) ==
    Arr(NamesOf("x", n) \o NamesOf("s", slackSurplusCount(sg, m))
        \o (IF useArtificials(me) THEN NamesOf("a", artificialCount(sg, m)) ELSE <<>>))

variableNames ==
    IF variant = "simple" THEN SimpleVariableNames(numVars, numConstraints)
    ELSE ExtVariableNames(numVars, numConstraints, signs, method)

ResultWithNames ==
    [steps |-> steps, finalTableau |-> tableau, solution |-> solution,
     optimalValue |-> optimalValue, status |-> status, finalBasicVars |-> basicVars,
     variableNames |-> variableNames]

(* The 7-argument solveSimplex applied to the arguments of the finished    *)
(* 5-argument call, with every sign '<=' and method 'standard'.  No caller *)
(* in the repository does this (handleSolve passes five arguments); the    *)
(* two definitions are applied in turn so that their results can be        *)
(* compared.                                                               *)
CallExtended ==
    /\ pc = "done" /\ callNo = 1 /\ variant = "simple"
    /\ firstResult' = ResultWithNames
    /\ callNo' = 2
    /\ pc' = "start"
    /\ variant' = "extended"
    /\ signs' = AllLe(numConstraints)
    /\ method' = "standard"
    /\ UNCHANGED <<type, numVars, numConstraints, objectiveCoeffs, constraints,
                   tableau, basicVars, steps, it, pivotCol, pivotRow, iterations,
                   phase2Steps, phase1Val, phase, status, solution, optimalValue>>

NextBoth == Next \/ CallExtended

SpecBoth == Init /\ [][NextBoth]_vars

-----------------------------------------------------------------------------
(* Properties.                                                             *)

Built == pc \in {"loop", "coord", "done"}
Rows == 0..(numConstraints - 1)
RhsCol == totalCols - 1

RECURSIVE DotFrom(_, _, _, _)
DotFrom(a, x, j, n) ==
    IF j >= n THEN Zero ELSE Plus(Times(a[j], x[j]), DotFrom(a, x, j + 1, n))
Dot(a, x, n) == DotFrom(a, x, 0, n)

RoundTripTol == <<1, 1000000>>
Within(p, q, tol) == ~Greater(AbsNum(Minus(p, q)), tol)

RelationHolds(i) ==
    LET lhs == Dot(constraints[i], solution, numVars)
        rhs == constraints[i][numVars]
    IN IF signs[i] = "<=" THEN ~Greater(lhs, Plus(rhs, RoundTripTol))
       ELSE IF signs[i] = ">=" THEN ~Less(lhs, Minus(rhs, RoundTripTol))
       ELSE Within(lhs, rhs, RoundTripTol)

(* C1: whenever a call returns Optimal, the returned solution satisfies    *)
(* every original constraint in its original relation, within tolerance.   *)
C1_ConstraintsRoundTrip ==
    (Done /\ status = "Optimal") => \A i \in Rows : RelationHolds(i)

(* C2: whenever a call returns Optimal, optimalValue equals the original   *)
(* objective evaluated at the returned solution, within 1e-6.              *)
C2_ObjectiveRoundTrip ==
    (Done /\ status = "Optimal") =>
        Within(optimalValue, Dot(objectiveCoeffs, solution, numVars), RoundTripTol)

(* C3: the status is Infeasible exactly when the method is twoPhase and    *)
(* the absolute value of row 0's right-hand side after the phase-1 loop    *)
(* exceeds 1e-5; the call then returns at once: no phase 2, only phase-1   *)
(* records in steps, an empty solution and optimalValue 0.  No other       *)
(* method and no 5-argument call returns Infeasible.                       *)
C3_InfeasibleOnlyTwoPhase ==
    Done =>
        /\ status = "Infeasible" <=>
              (method = "twoPhase" /\ Greater(AbsNum(phase1Val), <<1, 100000>>))
        /\ status = "Infeasible" =>
              /\ phase = 1
              /\ phase2Steps = 0
              /\ Len(steps) = it
              /\ phase1Val = tableau[0][RhsCol]
              /\ solution = <<>>
              /\ optimalValue = Zero

C3_Witness ==
    /\ Done /\ status = "Infeasible" /\ method = "twoPhase"
    /\ Len(steps) > 0
    /\ Less(phase1Val, Zero)

NoEligibleRow(T, col, tol) == \A i \in 1..numConstraints : ~Greater(T[i][col], tol)
RatioTol == IF variant = "simple" THEN Zero ELSE EPS

(* C4: in the 5-argument variant and under standard and bigM the status is *)
(* Unbounded exactly when the latest iteration's ratio test found no       *)
(* eligible row in its entering column; an Unbounded result of any method  *)
(* has no record for that iteration, an empty solution and optimalValue 0. *)
C4_UnboundedIffNoEligibleRow ==
    Done =>
        /\ method # "twoPhase" =>
              (status = "Unbounded" <=> (pivotCol # -1 /\ pivotRow = -1))
        /\ status = "Unbounded" =>
              /\ pivotCol # -1
              /\ NoEligibleRow(tableau, pivotCol, RatioTol)
              /\ Len(steps) >= it
              /\ method # "twoPhase" => Len(steps) = it
              /\ \A k \in 1..Len(steps) : steps[k].pivotRow >= 1
              /\ solution = <<>>
              /\ optimalValue = Zero

C4_Witness ==
    /\ Done /\ status = "Unbounded" /\ method = "bigM"
    /\ Len(steps) > 0

(* C5: under twoPhase an Unbounded outcome of the phase-1 loop is returned *)
(* at once as status Unbounded, without a feasibility verdict, a rewrite   *)
(* of row 0 or a phase-2 pivot.                                            *)
C5_Phase1UnboundedPropagates ==
    (Done /\ method = "twoPhase" /\ iterations = -1) =>
        (status = "Unbounded" /\ phase = 1)

(* C6: every step record holds the basis as it was before its pivot, so    *)
(* the entry of its pivot row is the leaving variable, not the entering.   *)
C6_StepsHoldPrePivotBasis ==
    \A k \in 1..Len(steps) :
        steps[k].basicVars[steps[k].pivotRow - 1] # steps[k].pivotCol

IsUnitColumn(T, col, row) ==
    /\ col \in 0..(totalCols - 2)
    /\ \A r \in 0..numConstraints :
          IF r = row THEN Within(T[r][col], One, EPS) ELSE Within(T[r][col], Zero, EPS)

IsCanonical(T, bv) == \A i \in 1..numConstraints : IsUnitColumn(T, bv[i - 1], i)

(* C7: after every pivot, and at the start of phase 2, every basic column  *)
(* is 1 in its own row and 0 in every other row, row 0 included.           *)
C7_CanonicalAfterPivot ==
    (Built /\ (it > 0 \/ phase = 2)) => IsCanonical(tableau, basicVars)

IsValidBasis(bv) ==
    /\ DOMAIN bv = Rows
    /\ \A i \in Rows : bv[i] \in 0..(totalCols - 2)
    /\ \A i, k \in Rows : i # k => bv[i] # bv[k]

(* C8: from the end of tableau construction on, and in every recorded      *)
(* step, basicVars has one entry per row, each a valid column index, and   *)
(* no index twice.                                                         *)
C8_ValidBasis ==
    Built =>
        /\ IsValidBasis(basicVars)
        /\ \A k \in 1..Len(steps) : IsValidBasis(steps[k].basicVars)

CapOf == IF variant = "simple" THEN maxIterationsSimple ELSE maxIterations
StepLimit ==
    IF variant = "simple" THEN maxIterationsSimple
    ELSE IF method = "twoPhase" THEN 2 * maxIterations
    ELSE maxIterations
RowZeroNegative ==
    IF variant = "simple" THEN \E j \in 0..(totalCols - 2) : Less(tableau[0][j], Zero)
    ELSE \E j \in 0..(totalCols - 2) : Less(tableau[0][j], Neg(EPS))
LastLoop == variant = "simple" \/ method # "twoPhase" \/ phase = 2

C9_Bounded ==
    /\ it <= CapOf
    /\ Len(steps) <= StepLimit
    /\ (Done /\ LastLoop /\ it = CapOf) => status = "Optimal"

(* C9: every call returns; a loop performs at most its cap of pivots (100  *)
(* in the 5-argument variant, 50 per loop in the 7-argument one), so steps *)
(* holds at most 100, 50 or (twoPhase) 100 records; a loop stopped by the  *)
(* cap with row 0 still negative is reported as Optimal.                   *)
C9_TerminatesWithinCap == <>Done /\ []C9_Bounded

C9_Witness ==
    /\ Done /\ it = CapOf /\ RowZeroNegative
    /\ Len(steps) = CapOf
    /\ status = "Optimal"

(* C10: solving the same arguments a second time returns the same steps,   *)
(* final tableau, final basis, solution, status and optimal value.         *)
C10_SameArgumentsSameResult ==
    (Done /\ callNo = 2) => Result = firstResult

C10_Witness ==
    /\ Done /\ callNo = 2
    /\ Len(steps) >= 2
    /\ firstResult.status = "Optimal"

(* C11: minimizing c.x and maximizing (-c).x over the same constraints     *)
(* perform the same pivots and return the same status and solution, and    *)
(* when the status is Optimal their optimal values are exact negatives.    *)
C11_MinMaxNegation ==
    (Done /\ callNo = 2) =>
        /\ steps = firstResult.steps
        /\ status = firstResult.status
        /\ solution = firstResult.solution
        /\ status = "Optimal" => optimalValue = Neg(firstResult.optimalValue)

C11_Witness ==
    /\ Done /\ callNo = 2
    /\ status = "Optimal"
    /\ Len(steps) >= 1
    /\ optimalValue # Zero
    /\ firstResult.optimalValue # optimalValue

IsExample ==
    /\ numVars = 2 /\ numConstraints = 3 /\ type = "max"
    /\ objectiveCoeffs = ExampleObjective
    /\ constraints = ExampleConstraints

(* C12: on max 3x1 + 5x2 with x1 <= 4, 2x2 <= 12, 3x1 + 2x2 <= 18 the     *)
(* 5-argument variant and the 7-argument variant under every method return *)
(* status Optimal, optimal value 36 and solution [2, 6].                   *)
C12_ExampleOptimum ==
    (Done /\ IsExample) =>
        /\ status = "Optimal"
        /\ optimalValue = Int2Num(36)
        /\ solution = Arr(<<Int2Num(2), Int2Num(6)>>)

C12_Witness ==
    /\ Done /\ IsExample /\ method = "twoPhase"
    /\ Len(steps) = 2
    /\ optimalValue = Int2Num(36)

Row0Cols == 0..(totalCols - 2)
EnterTol == IF variant = "simple" THEN Zero ELSE Neg(EPS)
HasEntering(T) == \E j \in Row0Cols : Less(T[0][j], EnterTol)
LowestMinCol(T) ==
    CHOOSE j \in Row0Cols :
        /\ \A k \in Row0Cols : ~Less(T[0][k], T[0][j])
        /\ \A k \in Row0Cols : k < j => T[0][k] # T[0][j]

C13_Iteration ==
    (pc = "loop" /\ it < CapOf) =>
        IF HasEntering(tableau)
        THEN /\ pivotCol' = LowestMinCol(tableau)
             /\ Len(steps') > Len(steps) =>
                   /\ steps'[Len(steps')].pivotCol = LowestMinCol(tableau)
                   /\ steps'[Len(steps')].tableau = tableau
        ELSE /\ steps' = steps
             /\ tableau' = tableau
             /\ basicVars' = basicVars
             /\ pc' # "loop"
             /\ variant = "simple" => status' = "Optimal"
             /\ variant = "extended" => (IF phase = 1 THEN iterations' ELSE phase2Steps') = it

(* C13: in every iteration the entering column is the lowest-index column  *)
(* holding the minimum of row 0 (right-hand side excluded) when that       *)
(* minimum is below the tolerance (0, or -1e-9 in the 7-argument variant); *)
(* otherwise the loop ends as optimal with no pivot and no new record.     *)
C13_EnteringColumn == [][C13_Iteration]_vars

C13_Witness ==
    \E k \in 1..Len(steps) :
        /\ steps[k].pivotCol = LowestMinCol(steps[k].tableau)
        /\ \E j \in Row0Cols :
              /\ j > steps[k].pivotCol
              /\ steps[k].tableau[0][j] = steps[k].tableau[0][steps[k].pivotCol]

Eligible(T, col) == {i \in 1..numConstraints : Greater(T[i][col], RatioTol)}
Ratio(T, i, col) == Over(T[i][RhsCol], T[i][col])

IsLowestMinRatioRow(T, row, col) ==
    /\ row \in Eligible(T, col)
    /\ \A i \in Eligible(T, col) : ~Less(Ratio(T, i, col), Ratio(T, row, col))
    /\ \A i \in Eligible(T, col) : i < row => Ratio(T, i, col) # Ratio(T, row, col)

(* C14: the pivot row of every recorded pivot is the lowest-index row      *)
(* among those with an entry above the tolerance in the entering column    *)
(* that attains the minimum of rhs/entry; a row whose entry is zero or     *)
(* negative is never the pivot row.                                        *)
C14_MinRatioRow ==
    \A k \in 1..Len(steps) :
        /\ IsLowestMinRatioRow(steps[k].tableau, steps[k].pivotRow, steps[k].pivotCol)
        /\ Greater(steps[k].tableau[steps[k].pivotRow][steps[k].pivotCol], Zero)

C14_Witness ==
    \E k \in 1..Len(steps) :
        /\ IsLowestMinRatioRow(steps[k].tableau, steps[k].pivotRow, steps[k].pivotCol)
        /\ \E i \in Eligible(steps[k].tableau, steps[k].pivotCol) :
              /\ i > steps[k].pivotRow
              /\ Ratio(steps[k].tableau, i, steps[k].pivotCol)
                    = Ratio(steps[k].tableau, steps[k].pivotRow, steps[k].pivotCol)
        /\ \E i \in 1..numConstraints :
              ~Greater(steps[k].tableau[i][steps[k].pivotCol], Zero)

(* C15: in every recorded pivot the ratio of the pivot row, its right-hand *)
(* side over its entry in the entering column, is not negative: no pivot   *)
(* is performed on a row whose right-hand side is negative.                *)
C15_NonNegativeRatio ==
    \A k \in 1..Len(steps) :
        /\ ~Less(Ratio(steps[k].tableau, steps[k].pivotRow, steps[k].pivotCol), Zero)
        /\ ~Less(steps[k].tableau[steps[k].pivotRow][RhsCol], Zero)

DecisionCols == 0..(numVars - 1)

(* The elements of an array: its values at the indices 0..length-1.  A key *)
(* that is no index (the property -1) is no element and does not count in  *)
(* the length.                                                             *)
Indices(a) == {j \in DOMAIN a : j >= 0}

(* C16: an Optimal result has a solution of n entries; the entry of each   *)
(* decision variable that is basic in some row is that row's right-hand    *)
(* side in the final tableau, every other entry is 0, and optimalValue is  *)
(* row 0's right-hand side, negated when the direction is min.             *)
C16_ExtractionReadsFinalTableau ==
    (Done /\ status = "Optimal") =>
        /\ Indices(solution) = DecisionCols
        /\ \A i \in Rows :
              basicVars[i] \in DecisionCols => solution[basicVars[i]] = tableau[i + 1][RhsCol]
        /\ \A j \in DecisionCols :
              (\A i \in Rows : basicVars[i] # j) => solution[j] = Zero
        /\ optimalValue = (IF type = "min" THEN Neg(tableau[0][RhsCol]) ELSE tableau[0][RhsCol])

C16_Witness ==
    /\ Done /\ status = "Optimal" /\ type = "min" /\ optimalValue # Zero
    /\ \E i \in Rows : basicVars[i] \in DecisionCols /\ solution[basicVars[i]] # Zero
    /\ \E i \in Rows : basicVars[i] = -1 /\ tableau[i + 1][RhsCol] # Zero
    /\ DOMAIN solution # Indices(solution)

BeforeFirstIteration ==
    variant = "extended" /\ pc = "loop" /\ phase = 1 /\ it = 0

HasUnitBasicColumn(T, bv, i) ==
    /\ bv[i - 1] \in 0..(totalCols - 2)
    /\ T[i][bv[i - 1]] = One
    /\ \A r \in 0..numConstraints : r # i => T[r][bv[i - 1]] = Zero

(* C17: before the first iteration of the 7-argument variant, for every    *)
(* method and relation mix, each constraint row has an initially basic     *)
(* variable whose column is 1 in that row and 0 in every other row, row 0  *)
(* included.                                                               *)
C17_CanonicalBeforeFirstIteration ==
    BeforeFirstIteration =>
        \A i \in 1..numConstraints : HasUnitBasicColumn(tableau, basicVars, i)

C18_Step ==
    /\ Len(steps') >= Len(steps)
    /\ \A k \in 1..Len(steps) : steps'[k] = steps[k]

(* C18: the step list only grows at its end and a record, once appended,   *)
(* is never changed: not by a later pivot, not by the phase-2 rewrite of   *)
(* row 0, not by the extraction of the result.                             *)
C18_StepsAppendOnly == [][C18_Step]_vars

C18_Witness ==
    /\ Done /\ method = "twoPhase" /\ phase = 2 /\ status = "Optimal"
    /\ iterations >= 1
    /\ Len(steps) > iterations
    /\ steps[1].tableau # steps[Len(steps)].tableau
    /\ steps[Len(steps)].tableau # tableau

FirstArtificialCol == numVars + slackSurplusCount(signs, numConstraints)

(* C19: under twoPhase no artificial column is the entering column of a    *)
(* phase-2 pivot, and in an Optimal result every artificial variable still *)
(* in the basis has value 0.                                               *)
C19_NoArtificialInPhase2 ==
    (variant = "extended" /\ method = "twoPhase" /\ phase = 2) =>
        /\ it >= 1 => steps[Len(steps)].pivotCol < FirstArtificialCol
        /\ (Done /\ status = "Optimal") =>
              \A i \in Rows :
                  basicVars[i] >= FirstArtificialCol =>
                      Within(tableau[i + 1][RhsCol], Zero, FEAS_TOL)

RhsNonNegative(T) == \A i \in 1..numConstraints : ~Less(T[i][RhsCol], Zero)

C20_Pivot ==
    (Len(steps') > Len(steps) /\ RhsNonNegative(tableau)) => RhsNonNegative(tableau')

(* C20: a pivot of either variant keeps feasibility: when every constraint *)
(* row has a right-hand side >= 0 before the pivot, every constraint row   *)
(* has one after it.                                                       *)
C20_PivotKeepsRhsNonNegative == [][C20_Pivot]_vars

(* The Gauss-Jordan pivot of T at (row, col), entry by entry.              *)
GaussJordan(T, row, col) ==
    [i \in DOMAIN T |-> [j \in DOMAIN T[i] |->
        IF i = row THEN Over(T[row][j], T[row][col])
        ELSE Minus(T[i][j], Times(T[i][col], Over(T[row][j], T[row][col])))]]

PivotOfRecord(rec) == GaussJordan(rec.tableau, rec.pivotRow, rec.pivotCol)

(* Index of the first record of the loop run that pushed record k: the     *)
(* phase-2 run of twoPhase pushed the last `it` records.                   *)
RunStart(k) ==
    IF method = "twoPhase" /\ phase = 2 /\ k > Len(steps) - it
    THEN Len(steps) - it + 1
    ELSE 1

(* C21: for two consecutive records of the same loop run the later tableau *)
(* is the Gauss-Jordan pivot of the earlier one at its pivot position, and *)
(* when no rewrite of row 0 follows the last record the current (finally   *)
(* the returned) tableau is the pivot of the last record's tableau.        *)
C21_TraceFollowsPivotRule ==
    Built =>
        /\ \A k \in 1..(Len(steps) - 1) :
              RunStart(k) = RunStart(k + 1) => steps[k + 1].tableau = PivotOfRecord(steps[k])
        /\ it >= 1 => tableau = PivotOfRecord(steps[Len(steps)])

C21_Witness ==
    /\ Done /\ method = "twoPhase" /\ phase = 2 /\ status = "Optimal"
    /\ it >= 2
    /\ Len(steps) > it
    /\ tableau = PivotOfRecord(steps[Len(steps)])
    /\ tableau # steps[Len(steps)].tableau
    /\ steps[Len(steps) - it + 1].tableau # PivotOfRecord(steps[Len(steps) - it])

ObjectiveOf(T) == T[0][RhsCol]

(* C22: in a loop run whose first tableau has every constraint-row         *)
(* right-hand side >= 0, row 0's right-hand side never decreases from one  *)
(* record of the run to the next, and the current (finally the returned)   *)
(* value is not below the last recorded one.                               *)
C22_ObjectiveNeverDecreases ==
    Built =>
        /\ \A k \in 1..(Len(steps) - 1) :
              (RunStart(k) = RunStart(k + 1) /\ RhsNonNegative(steps[RunStart(k)].tableau)) =>
                  ~Less(ObjectiveOf(steps[k + 1].tableau), ObjectiveOf(steps[k].tableau))
        /\ (it >= 1 /\ RhsNonNegative(steps[RunStart(Len(steps))].tableau)) =>
              ~Less(ObjectiveOf(tableau), ObjectiveOf(steps[Len(steps)].tableau))

(* C23: on an all-<= problem the 7-argument variant under method standard  *)
(* returns what the 5-argument variant returns: status, the pivot          *)
(* positions and pre-pivot tableaux of the steps, final tableau, final     *)
(* basis, solution, optimalValue and variableNames.                        *)
C23_VariantsAgree ==
    (Done /\ callNo = 2 /\ variant = "extended") =>
        /\ status = firstResult.status
        /\ Len(steps) = Len(firstResult.steps)
        /\ \A k \in 1..Len(steps) :
              k <= Len(firstResult.steps) =>
                  /\ steps[k].pivotRow = firstResult.steps[k].pivotRow
                  /\ steps[k].pivotCol = firstResult.steps[k].pivotCol
                  /\ steps[k].tableau = firstResult.steps[k].tableau
        /\ tableau = firstResult.finalTableau
        /\ basicVars = firstResult.finalBasicVars
        /\ solution = firstResult.solution
        /\ optimalValue = firstResult.optimalValue
        /\ variableNames = firstResult.variableNames

====
